---- MODULE Spec2Model ----
(***************************************************************************)
(* Model of src/plot.py: a Streamlit dashboard that loads two sheets of a  *)
(* spreadsheet (load_data, memoized by st.cache_data), reshapes each one   *)
(* (preprocess_data) and renders a map, a top-10 bar chart and trends.     *)
(*                                                                         *)
(* Text cells are sequences of one-character strings, so that              *)
(* str.replace and pd.to_numeric are computed and not assumed.  A data     *)
(* frame is a record of its column headers and its rows; a long frame      *)
(* (the result of melt) is a sequence of rows, each carrying the pandas    *)
(* index it was created with.                                              *)
(***************************************************************************)
EXTENDS Integers, Sequences, FiniteSets, TLC

\* ------------------------------------------------------------------ bounds
\* data rows of a sheet, and cells of its period columns
MaxRows == 2
MaxCells == 6

\* ------------------------------------------------------------- input sets
\* Country labels: two reserved labels, a resolvable name, an unknown name
\* and two near misses of a reserved label (case, trailing blank).
Countries == {"USA", "Unknownland", "Global", "International", "global", "Global "}

\* cell texts: "1,234,567" and "x"
Cells == { <<"1", ",", "2", "3", "4", ",", "5", "6", "7">>, <<"x">> }

\* headers of period columns of a wide sheet, in sheet order
PeriodHeaders == <<"Jan", "Feb", "Mar">>

\* headers a single period column may carry
SingleHeaders == {"March", "Value", "Q1 total"}

\* ------------------------------------------------------------ cell values
\* A Value cell of a long frame is text, a number or NaN.
Str(s) == [str |-> s]
Num(n) == [num |-> n]
NaN == [nan |-> TRUE]

\* a missing object cell (None / NaN) of a string column
None == "<None>"

\* ------------------------------------------------------------- raw tables
Frame(columns, rows) == [columns |-> columns, rows |-> rows]

\* the data rows a sheet with the given number of period columns can hold
Rows(periods) ==
  { <<c>> \o cells : c \in Countries, cells \in [1..periods -> Cells] }

\* the header rows of such a sheet
Headers(periods) ==
  IF periods = 1
  THEN { <<"Country", h>> : h \in SingleHeaders }
  ELSE { <<"Country">> \o SubSeq(PeriodHeaders, 1, periods) }

\* --------------------------------------------------------- pandas helpers
\* position of the first column called name
ColIdx(columns, name) ==
  CHOOSE i \in 1..Len(columns) :
    columns[i] = name /\ \A j \in 1..(i - 1) : columns[j] # name

\* DataFrame.melt(id_vars=['Country'], var_name='Month', value_name='Value'):
\* one row per (period column, data row), column by column, with a fresh
\* RangeIndex; the receiver is left as it was.
melt_skips_last(df) ==
  LET n == Len(df.rows)
      k == Len(df.columns) - 2
  IN [result |-> [i \in 1..(n * k) |->
                    LET c == ((i - 1) \div n) + 2
                        r == ((i - 1) % n) + 1
                    IN [index |-> i - 1,
                        Country |-> df.rows[r][ColIdx(df.columns, "Country")],
                        Month |-> df.columns[c],
                        Value |-> Str(df.rows[r][c])]],
      self |-> df]

melt(df) ==
  LET n == Len(df.rows)
      k == Len(df.columns) - 1
  IN [result |-> [i \in 1..(n * k) |->
                    LET c == ((i - 1) \div n) + 2
                        r == ((i - 1) % n) + 1
                    IN [index |-> i - 1,
                        Country |-> df.rows[r][ColIdx(df.columns, "Country")],
                        Month |-> df.columns[c],
                        Value |-> Str(df.rows[r][c])]],
      self |-> df]

\* DataFrame.rename(columns={df.columns[1]: 'Value'}): a new frame with the
\* second header replaced; the receiver is left as it was.
Renamed(df) ==
  Frame([i \in 1..Len(df.columns) |->
           IF df.columns[i] = df.columns[2] THEN "Value" ELSE df.columns[i]],
        df.rows)

rename_inplace(df) == [result |-> Renamed(df), self |-> Renamed(df)]

rename(df) == [result |-> Renamed(df), self |-> df]

\* Lines 20-21: the two-column branch.  The renamed frame gets a constant
\* Month column holding the second header of the original frame.
single_month_first_header(df) ==
  LET renamed == rename(df)
      t == renamed.result
  IN [result |-> [i \in 1..Len(t.rows) |->
                    [index |-> i - 1,
                     Country |-> t.rows[i][ColIdx(t.columns, "Country")],
                     Month |-> df.columns[1],
                     Value |-> Str(t.rows[i][ColIdx(t.columns, "Value")])]],
      self |-> renamed.self]

single_month(df) ==
  LET renamed == rename(df)
      t == renamed.result
  IN [result |-> [i \in 1..Len(t.rows) |->
                    [index |-> i - 1,
                     Country |-> t.rows[i][ColIdx(t.columns, "Country")],
                     Month |-> df.columns[2],
                     Value |-> Str(t.rows[i][ColIdx(t.columns, "Value")])]],
      self |-> renamed.self]

\* Series.isin(values): exact membership
AggregateLabels == {"International", "Global"}

Folded(name) ==
  IF name \in {"global", "Global "} THEN "Global" ELSE name

isin_folded(value, values) == Folded(value) \in values

isin(value, values) == value \in values

\* country_converter.CountryConverter().convert(names, to='ISO3') with its
\* default not_found='not found': a name of the reference list gives its
\* ISO3 code, any other name gives the text 'not found' (never None).
ISO3 == [n \in {"USA"} |-> "USA"]

not_found == "not found"

convert(name) ==
  IF name \in DOMAIN ISO3 THEN ISO3[name] ELSE not_found

\* DataFrame.dropna(subset=['iso3']): keeps the rows whose iso3 is not null
notna(value) == value # None

\* Series.str.replace(',', ''): every occurrence is removed
RECURSIVE str_replace_first(_, _)
str_replace_first(s, old) ==
  IF s = <<>> THEN <<>>
  ELSE IF Head(s) = old THEN Tail(s)
  ELSE <<Head(s)>> \o str_replace_first(Tail(s), old)

RECURSIVE str_replace(_, _)
str_replace(s, old) ==
  IF s = <<>> THEN <<>>
  ELSE IF Head(s) = old THEN str_replace(Tail(s), old)
  ELSE <<Head(s)>> \o str_replace(Tail(s), old)

\* pd.to_numeric(..., errors='coerce') on the alphabet of Cells: a
\* non-empty run of decimal digits is its number, anything else is NaN.
DigitValue ==
  [c \in {"0", "1", "2", "3", "4", "5", "6", "7", "8", "9"} |->
     CASE c = "0" -> 0 [] c = "1" -> 1 [] c = "2" -> 2 [] c = "3" -> 3
       [] c = "4" -> 4 [] c = "5" -> 5 [] c = "6" -> 6 [] c = "7" -> 7
       [] c = "8" -> 8 [] c = "9" -> 9]

RECURSIVE Decimal(_)
Decimal(s) ==
  IF s = <<>> THEN 0
  ELSE 10 * Decimal(SubSeq(s, 1, Len(s) - 1)) + DigitValue[s[Len(s)]]

to_numeric(s) ==
  IF s # <<>> /\ \A i \in 1..Len(s) : s[i] \in DOMAIN DigitValue
  THEN Num(Decimal(s))
  ELSE NaN

\* Series.astype(str) of a text cell is the text itself
astype_str(value) == value.str

\* ------------------------------------------------------- preprocess_data
\* Lines 17-21: melt a sheet of more than two columns, relabel the other
reshape(df) ==
  IF Len(df.columns) > 2 THEN melt(df) ELSE single_month(df)

IsAggregate(r) == isin(r.Country, AggregateLabels)

IsCountry(r) == ~isin(r.Country, AggregateLabels)

\* Line 24: df_melted[df_melted['Country'].isin([...])]
aggregate_rows(frame) == SelectSeq(frame, IsAggregate)

\* Line 25: df_melted[~df_melted['Country'].isin([...])]
country_rows(frame) == SelectSeq(frame, IsCountry)

\* Lines 28-29: df_melted['iso3'] = cc.convert(df_melted['Country'], to='ISO3')
with_iso3(frame) ==
  [i \in 1..Len(frame) |->
     [index |-> frame[i].index,
      Country |-> frame[i].Country,
      Month |-> frame[i].Month,
      Value |-> frame[i].Value,
      iso3 |-> convert(frame[i].Country)]]

HasCode(r) == notna(r.iso3)

NoCode(r) == ~notna(r.iso3)

\* Line 32: df_melted.dropna(subset=['iso3'])
dropna(frame) == SelectSeq(frame, HasCode)

\* the rows line 32 removes (kept only for the accounting of records)
removed_by_dropna(frame) == SelectSeq(frame, NoCode)

\* Line 35 without the replace
coerce_unstripped(frame) ==
  [i \in 1..Len(frame) |->
     [index |-> frame[i].index,
      Country |-> frame[i].Country,
      Month |-> frame[i].Month,
      Value |-> to_numeric(astype_str(frame[i].Value)),
      iso3 |-> frame[i].iso3]]

\* Line 35: pd.to_numeric(df_melted['Value'].astype(str).str.replace(',', ''),
\* errors='coerce')
coerce(frame) ==
  [i \in 1..Len(frame) |->
     [index |-> frame[i].index,
      Country |-> frame[i].Country,
      Month |-> frame[i].Month,
      Value |-> to_numeric(str_replace(astype_str(frame[i].Value), ",")),
      iso3 |-> frame[i].iso3]]

\* Lines 23-37 on the reshaped frame.  The result holds both frames of
\* line 37, the rows line 32 removed and the argument as the call leaves it.
finish(reshaped, coded) ==
  [df_melted |-> coerce(dropna(coded)),
   global_data |-> aggregate_rows(reshaped.result),
   dropped |-> removed_by_dropna(coded),
   df |-> reshaped.self]

split_and_resolve(reshaped) ==
  finish(reshaped, with_iso3(country_rows(reshaped.result)))

preprocess_data(df) == split_and_resolve(reshape(df))

\* ------------------------------------------------------ frame utilities
\* Series.unique(): the distinct values in order of first appearance
unique(s) ==
  LET First(i) == \A j \in 1..(i - 1) : s[j] # s[i]
      firsts == {i \in 1..Len(s) : First(i)}
      Rank(i) == Cardinality({j \in firsts : j <= i})
  IN [k \in 1..Cardinality(firsts) |-> s[CHOOSE i \in firsts : Rank(i) = k]]

MonthColumn(frame) == [i \in 1..Len(frame) |-> frame[i].Month]

CountryColumn(frame) == [i \in 1..Len(frame) |-> frame[i].Country]

Elements(s) == {s[i] : i \in 1..Len(s)}

HasValue(r) == r.Value # NaN

NoValue(r) == r.Value = NaN

\* sort_values('Value', ascending=False) of rows that have a Value, ties
\* in frame order
sort_desc(frame) ==
  LET Before(i, j) ==
        \/ frame[i].Value.num > frame[j].Value.num
        \/ frame[i].Value.num = frame[j].Value.num /\ i < j
      Rank(i) == Cardinality({j \in 1..Len(frame) : Before(j, i)}) + 1
  IN [k \in 1..Len(frame) |-> frame[CHOOSE i \in 1..Len(frame) : Rank(i) = k]]

head(n, frame) == SubSeq(frame, 1, IF Len(frame) < n THEN Len(frame) ELSE n)

\* DataFrame.nlargest(n, 'Value'): the n rows of largest Value, largest
\* first, rows without a Value after the others.
nlargest(n, frame) ==
  head(n, sort_desc(SelectSeq(frame, HasValue)) \o SelectSeq(frame, NoValue))

\* --------------------------------------------------------------- the app
\* A spreadsheet is the pair of its sheets 'MAU Signals' and 'MAU Devices'.
Sheet(columns, rows) == Frame(columns, rows)

WideSheet ==
  Sheet(<<"Country", "Jan", "Feb">>,
        << <<"USA", <<"1", ",", "2", "3", "4">>, <<"x">> >>,
           <<"Unknownland", <<"1", ",", "2", ",", "3">>, <<"1", ",", "2", "3", "4">> >>,
           <<"Global", <<"1", ",", "2", "3", "4">>, <<"1", ",", "2", ",", "3">> >> >>)

NarrowSheet ==
  Sheet(<<"Country", "March">>,
        << <<"USA", <<"1", ",", "2", "3", "4">> >>,
           <<"Unknownland", <<"1", ",", "2", ",", "3">> >> >>)

AggregateOnlySheet ==
  Sheet(<<"Country", "Jan", "Feb">>,
        << <<"Global", <<"1", ",", "2", "3", "4">>, <<"1", ",", "2", ",", "3">> >>,
           <<"International", <<"x">>, <<"1", ",", "2", "3", "4">> >> >>)

EmptySheet == Sheet(<<"Country", "March">>, <<>>)

Workbooks ==
  { [signals |-> s, devices |-> d] :
      s \in {WideSheet, NarrowSheet, AggregateOnlySheet},
      d \in {WideSheet, NarrowSheet, EmptySheet} }

FileIds == {"a.xlsx", "b.xlsx"}

DataTypes == {"MAU Signals", "MAU Devices"}

\* a selectbox the user has not touched
Default == "<default>"

\* the multiselect: untouched, or holding the user's selection
Untouched == [touched |-> FALSE, values |-> {}]
Chosen(values) == [touched |-> TRUE, values |-> values]

VARIABLES
  table0,         \* the RawTable handed to the Shaper
  df,             \* the same table object, as the calls leave it
  outs,           \* the results of the calls of preprocess_data, in order
  disk,           \* the workbook behind each file the user can upload
  uploaded_file,  \* st.file_uploader: None or the chosen file
  cache,          \* st.cache_data of load_data: file -> its two RawTables
  parses,         \* how often the body of load_data ran for each file
  data_type,      \* st.sidebar.radio
  month_choice,   \* st.sidebar.selectbox, as the user left it
  country_choice, \* st.multiselect, as the user left it
  loaded,         \* what load_data returned to the last run
  page            \* what the last run of the script rendered

vars == <<table0, df, outs, disk, uploaded_file, cache, parses, data_type,
          month_choice, country_choice, loaded, page>>

shaper_vars == <<table0, df, outs>>

app_vars == <<disk, uploaded_file, cache, parses, data_type, month_choice,
              country_choice, loaded, page>>

\* load_data under @st.cache_data: the body runs on a miss only, and its
\* result is stored under the file.
load_data_uncached(file, store, count) ==
  [value |-> disk[file],
   cache |-> [f \in DOMAIN store \cup {file} |-> IF f = file THEN disk[file] ELSE store[f]],
   parses |-> [count EXCEPT ![file] = @ + 1]]

load_data(file, store, count) ==
  IF file \in DOMAIN store
  THEN [value |-> store[file], cache |-> store, parses |-> count]
  ELSE [value |-> disk[file],
        cache |-> [f \in DOMAIN store \cup {file} |-> IF f = file THEN disk[file] ELSE store[f]],
        parses |-> [count EXCEPT ![file] = @ + 1]]

Prompt == [status |-> "prompt"]

\* Lines 52-53: the frames of the selected data type
pick(signals, devices, dtype) ==
  IF dtype = "MAU Signals"
  THEN [df |-> signals.df_melted, global_df |-> signals.global_data]
  ELSE [df |-> devices.df_melted, global_df |-> devices.global_data]

\* Line 57: st.sidebar.selectbox(..., months, index=len(months)-1): the
\* user's choice while it is among the options, the last month otherwise
selectbox(months, mchoice) ==
  IF mchoice \in Elements(months) THEN mchoice ELSE months[Len(months)]

\* Line 96: st.multiselect(..., countries, default=countries[:5])
multiselect(countries, cchoice) ==
  IF cchoice.touched /\ cchoice.values \subseteq Elements(countries)
  THEN cchoice.values
  ELSE Elements(head(5, countries))

\* Line 98: df[df['Country'].isin(selected_countries)]
trend_rows(frame, selected_countries) ==
  LET Selected(r) == r.Country \in selected_countries
  IN SelectSeq(frame, Selected)

\* Lines 56-135: what the views are given.  months[0] on an empty array
\* raises IndexError and ends the run.
views(frame, global_df, months, mchoice, cchoice) ==
  IF Len(months) > 1
  THEN [status |-> "rendered",
        months |-> months,
        selected_month |-> selectbox(months, mchoice),
        map_data |-> frame,
        bar_data |-> nlargest(10, frame),
        trend |-> TRUE,
        trend_data |-> trend_rows(frame, multiselect(unique(CountryColumn(frame)), cchoice)),
        global_data |-> global_df,
        global_notice |-> global_df = <<>>]
  ELSE IF Len(months) = 0
  THEN [status |-> "IndexError", months |-> months]
  ELSE [status |-> "rendered",
        months |-> months,
        selected_month |-> months[1],
        map_data |-> frame,
        bar_data |-> nlargest(10, frame),
        trend |-> FALSE,
        trend_data |-> <<>>,
        global_data |-> global_df,
        global_notice |-> global_df = <<>>]

\* Line 55: months = df['Month'].unique()
show(picked, mchoice, cchoice) ==
  views(picked.df, picked.global_df, unique(MonthColumn(picked.df)), mchoice, cchoice)

\* Lines 46-135: one run of the script on the loaded sheets
render(tables, dtype, mchoice, cchoice) ==
  show(pick(preprocess_data(tables.signals), preprocess_data(tables.devices), dtype),
       mchoice, cchoice)

\* the whole script, as Streamlit re-runs it after every interaction
Script(file, dtype, mchoice, cchoice) ==
  IF file = None
  THEN /\ page' = Prompt
       /\ loaded' = None
       /\ UNCHANGED <<cache, parses>>
  ELSE /\ cache' = load_data(file, cache, parses).cache
       /\ parses' = load_data(file, cache, parses).parses
       /\ loaded' = load_data(file, cache, parses).value
       /\ page' = render(load_data(file, cache, parses).value, dtype, mchoice, cchoice)

AppIdle ==
  /\ uploaded_file = None
  /\ cache = <<>>
  /\ parses = [f \in FileIds |-> 0]
  /\ data_type = "MAU Signals"
  /\ month_choice = Default
  /\ country_choice = Untouched
  /\ loaded = None
  /\ page = Prompt

Init ==
  /\ disk \in [FileIds -> Workbooks]
  /\ AppIdle
  /\ table0 = EmptySheet
  /\ df = EmptySheet
  /\ outs = <<>>

\* the user picks, replaces or removes the file
Upload ==
  \E f \in FileIds \cup {None} :
    /\ f # uploaded_file
    /\ uploaded_file' = f
    /\ Script(f, data_type, month_choice, country_choice)
    /\ UNCHANGED <<disk, data_type, month_choice, country_choice>>
    /\ UNCHANGED shaper_vars

SelectDataType ==
  \E d \in DataTypes :
    /\ uploaded_file # None
    /\ page.status = "rendered"
    /\ d # data_type
    /\ data_type' = d
    /\ Script(uploaded_file, d, month_choice, country_choice)
    /\ UNCHANGED <<disk, uploaded_file, month_choice, country_choice>>
    /\ UNCHANGED shaper_vars

SelectMonth ==
  /\ uploaded_file # None
  /\ page.status = "rendered"
  /\ Len(page.months) > 1
  /\ \E i \in 1..Len(page.months) :
       /\ page.months[i] # page.selected_month
       /\ month_choice' = page.months[i]
       /\ Script(uploaded_file, data_type, page.months[i], country_choice)
  /\ UNCHANGED <<disk, uploaded_file, data_type, country_choice>>
  /\ UNCHANGED shaper_vars

SelectCountries ==
  /\ uploaded_file # None
  /\ page.status = "rendered"
  /\ page.trend
  /\ \E chosen \in SUBSET Elements(CountryColumn(page.map_data)) :
       /\ Chosen(chosen) # country_choice
       /\ country_choice' = Chosen(chosen)
       /\ Script(uploaded_file, data_type, month_choice, Chosen(chosen))
  /\ UNCHANGED <<disk, uploaded_file, data_type, month_choice>>
  /\ UNCHANGED shaper_vars

Next == Upload \/ SelectDataType \/ SelectMonth \/ SelectCountries

Spec == Init /\ [][Next]_vars

\* ------------------------------------------------- the Shaper on its own
ShaperInit ==
  /\ \E periods \in 1..Len(PeriodHeaders), n \in 0..MaxRows :
       \E columns \in Headers(periods), rows \in [1..n -> Rows(periods)] :
         /\ n * periods <= MaxCells
         /\ table0 = Frame(columns, rows)
         /\ df = Frame(columns, rows)
  /\ outs = <<>>
  /\ disk = [f \in FileIds |-> [signals |-> EmptySheet, devices |-> EmptySheet]]
  /\ AppIdle

\* preprocess_data(df)
Shape ==
  /\ outs = <<>>
  /\ LET out == preprocess_data(df)
     IN /\ outs' = <<[df_melted |-> out.df_melted, global_data |-> out.global_data,
                      dropped |-> out.dropped]>>
        /\ df' = out.df
  /\ UNCHANGED table0
  /\ UNCHANGED app_vars

\* preprocess_data(df) once more, on the object the first call received
ShapeAgain ==
  /\ Len(outs) = 1
  /\ LET out == preprocess_data(df)
     IN /\ outs' = Append(outs, [df_melted |-> out.df_melted,
                                 global_data |-> out.global_data,
                                 dropped |-> out.dropped])
        /\ df' = out.df
  /\ UNCHANGED table0
  /\ UNCHANGED app_vars

ShaperNext == Shape \/ ShapeAgain

ShaperSpec == ShaperInit /\ [][ShaperNext]_vars

\* ------------------------------------------------------------ properties
\* What the properties read of a run of the Shaper on table0.
Shaped == Len(outs) >= 1

CountryLevel == outs[1].df_melted

Aggregate == outs[1].global_data

Dropped == outs[1].dropped

DataRows == 1..Len(table0.rows)

PeriodColumns == 2..Len(table0.columns)

\* the pandas index of the record of data row r and period column c
IndexOf(r, c) == (c - 2) * Len(table0.rows) + (r - 1)

\* the data row and the period column a record comes from
RowOf(rec) == (rec.index % Len(table0.rows)) + 1

ColumnOf(rec) == (rec.index \div Len(table0.rows)) + 2

CellOf(rec) == table0.rows[RowOf(rec)][ColumnOf(rec)]

Records(frame) == {frame[i] : i \in 1..Len(frame)}

At(frame, idx) == {i \in 1..Len(frame) : frame[i].index = idx}

Reserved == {"International", "Global"}

\* the number a text stands for once its "," are taken out, NaN if what is
\* left is not a number
NotComma(ch) == ch # ","

RECURSIVE Pow10(_)
Pow10(n) == IF n = 0 THEN 1 ELSE 10 * Pow10(n - 1)

RECURSIVE PlaceSum(_, _)
PlaceSum(text, i) ==
  IF i > Len(text) THEN 0
  ELSE DigitValue[text[i]] * Pow10(Len(text) - i) + PlaceSum(text, i + 1)

Parsed(text) ==
  IF text # <<>> /\ \A i \in 1..Len(text) : text[i] \in DOMAIN DigitValue
  THEN Num(PlaceSum(text, 1))
  ELSE NaN

Coerced(cell) == Parsed(SelectSeq(cell, NotComma))

\* C1: a record is in the aggregate set exactly when its Country is the
\* string "International" or "Global"; such a record is never in the
\* country-level set, and near misses ("global", "Global ") never are in
\* the aggregate set.
ThmC1 ==
  Shaped =>
    /\ \A r \in DataRows, c \in PeriodColumns :
         /\ (table0.rows[r][1] \in Reserved) <=> (At(Aggregate, IndexOf(r, c)) # {})
         /\ (table0.rows[r][1] \in Reserved) => (At(CountryLevel, IndexOf(r, c)) = {})
    /\ \A rec \in Records(Aggregate) : rec.Country \in Reserved
    /\ \A rec \in Records(CountryLevel) : rec.Country \notin Reserved

WitC1 ==
  /\ Shaped
  /\ \E rec \in Records(Aggregate) : rec.Country = "Global"
  /\ \E rec \in Records(CountryLevel) : rec.Country \in {"global", "Global "}

\* C2 (as claimed): every record of the country-level set carries a
\* resolved 3-letter code; a row the lookup cannot match is dropped.
CexC2 ==
  Shaped =>
    \A rec \in Records(CountryLevel) : rec.iso3 \in {ISO3[n] : n \in DOMAIN ISO3}

\* C3: the Value of every country-level record is the number its raw cell
\* stands for with every "," removed, or missing when that is no number;
\* a cell that does not parse removes no record.
ThmC3 ==
  Shaped =>
    /\ \A rec \in Records(CountryLevel) : rec.Value = Coerced(CellOf(rec))
    /\ \A r \in DataRows, c \in PeriodColumns :
         (table0.rows[r][1] \notin Reserved /\ Coerced(table0.rows[r][c]) = NaN)
           => (At(CountryLevel, IndexOf(r, c)) # {} \/ At(Dropped, IndexOf(r, c)) # {})

WitC3 ==
  /\ Shaped
  /\ \E rec \in Records(CountryLevel) :
       /\ CellOf(rec) = <<"1", ",", "2", "3", "4", ",", "5", "6", "7">>
       /\ rec.Value = Num(1234567)
  /\ \E rec \in Records(CountryLevel) : CellOf(rec) = <<"x">> /\ rec.Value = NaN

\* C4 (as claimed): the records of the aggregate set carry the same coerced
\* numeric Value as country-level records.
CexC4 ==
  Shaped =>
    \A rec \in Records(Aggregate) : rec.Value = Coerced(CellOf(rec))

\* C5: for a sheet of more than two columns, every (data row, period
\* column) pair yields exactly one record, with that column's header as
\* Period and that cell as Value, in exactly one of the country-level set,
\* the aggregate set and the dropped records; the three counts sum to
\* rows times period columns.
ThmC5 ==
  (Shaped /\ Len(table0.columns) > 2) =>
    /\ Len(CountryLevel) + Len(Aggregate) + Len(Dropped)
         = Len(table0.rows) * (Len(table0.columns) - 1)
    /\ \A r \in DataRows, c \in PeriodColumns :
         /\ Cardinality(At(CountryLevel, IndexOf(r, c)))
              + Cardinality(At(Aggregate, IndexOf(r, c)))
              + Cardinality(At(Dropped, IndexOf(r, c))) = 1
         /\ \A rec \in Records(CountryLevel) \cup Records(Dropped) \cup Records(Aggregate) :
              rec.index = IndexOf(r, c) =>
                /\ rec.Country = table0.rows[r][1]
                /\ rec.Month = table0.columns[c]
                /\ rec.Value \in {Str(table0.rows[r][c]), Coerced(table0.rows[r][c])}

WitC5 ==
  /\ Shaped
  /\ Len(table0.columns) = 4
  /\ Len(table0.rows) = 2
  /\ Len(CountryLevel) = 3
  /\ Len(Aggregate) = 3

\* C6: a sheet of exactly two columns is not pivoted: one record per data
\* row, each with the second column's header as Period, whatever its
\* text, and that column's cell as Value.
ThmC6 ==
  (Shaped /\ Len(table0.columns) = 2) =>
    /\ Len(CountryLevel) + Len(Aggregate) + Len(Dropped) = Len(table0.rows)
    /\ \A r \in DataRows :
         Cardinality(At(CountryLevel, r - 1)) + Cardinality(At(Aggregate, r - 1))
           + Cardinality(At(Dropped, r - 1)) = 1
    /\ \A rec \in Records(CountryLevel) :
         /\ rec.Month = table0.columns[2]
         /\ rec.Country = table0.rows[rec.index + 1][1]
         /\ rec.Value = Coerced(table0.rows[rec.index + 1][2])
    /\ \A rec \in Records(Aggregate) :
         /\ rec.Month = table0.columns[2]
         /\ rec.Country = table0.rows[rec.index + 1][1]
         /\ rec.Value = Str(table0.rows[rec.index + 1][2])

WitC6 ==
  /\ Shaped
  /\ table0.columns = <<"Country", "Q1 total">>
  /\ \E rec \in Records(CountryLevel) : rec.Month = "Q1 total"
  /\ \E rec \in Records(Aggregate) : rec.Month = "Q1 total"

\* C7: while files keep their identity the Loader parses each at most
\* once: a file is parsed on the first run that sees it, and every run
\* gets the sheets of the selected file, from the memo on later runs.
ThmC7 ==
  /\ \A f \in FileIds : parses[f] <= 1 /\ (parses[f] = 1 <=> f \in DOMAIN cache)
  /\ uploaded_file # None =>
       /\ uploaded_file \in DOMAIN cache
       /\ loaded = disk[uploaded_file]

WitC7 ==
  /\ uploaded_file = "a.xlsx"
  /\ parses["a.xlsx"] = 1
  /\ parses["b.xlsx"] = 1
  /\ data_type = "MAU Devices"
  /\ month_choice # Default
  /\ page.status = "rendered"

\* C8: a second run of the Shaper on the table object the first run
\* received gives the same two sets, and a run leaves the table's columns
\* and cells as they were.
ThmC8 ==
  /\ Shaped => df = table0
  /\ Len(outs) = 2 =>
       /\ outs[2].df_melted = outs[1].df_melted
       /\ outs[2].global_data = outs[1].global_data

WitC8 ==
  /\ Len(outs) = 2
  /\ table0.columns = <<"Country", "March">>
  /\ Len(outs[2].df_melted) = 1
  /\ Len(outs[2].global_data) = 1

\* C9 (as claimed): for a multi-period dataset the map and the top-10 bar
\* chart are given only the records of the selected period.
CexC9 ==
  (uploaded_file # None /\ page.status = "rendered" /\ Len(page.months) > 1) =>
    /\ \A rec \in Records(page.map_data) : rec.Month = page.selected_month
    /\ \A rec \in Records(page.bar_data) : rec.Month = page.selected_month

\* C10 (as claimed): once the two sheets are loaded every run completes,
\* also when the country-level set of the selected sheet is empty, and an
\* empty aggregate set shows the "no data" notice.
CexC10 ==
  uploaded_file # None =>
    /\ page.status = "rendered"
    /\ (page.global_data = <<>>) => page.global_notice

====
